---- MODULE Spec2Model ----
(***************************************************************************)
(* Sprint_Analysis: the normalize -> score -> route pipeline.              *)
(*   sprint_checker.py             generate_csv, send_alerts, analyse_csv  *)
(*   jira_client.py                fetch_jira_dataframe                    *)
(*   dashboard.py                  calculate_sprint_health                 *)
(*   executive_sprint_summary.py   compute_kpis                            *)
(*   insights_service.py           build_private_manager_report            *)
(***************************************************************************)
EXTENDS Integers, Sequences, FiniteSets, TLC

VARIABLES
    pc,              \* position of the running entry point
    rows,            \* the record set handed to a scorer / analyser
    score,           \* calculate_sprint_health's return value
    overloaded,      \* [analyse |-> ..., manager |-> ...]: the two overload lists
    kpis,            \* compute_kpis's return value
    mode,            \* SprintHealthChecker.mode: "mock" or "live"
    qi,              \* generate_csv: index of the next entry of queries
    csv,             \* the record file: [exists, rows]
    error,           \* the exception that ended the run, "none" if none
    alerts_enabled,  \* SprintHealthChecker.alerts_enabled
    destinations,    \* SprintHealthChecker.destinations, in configuration order
    critical_issues, \* send_alerts: the critical subset read from the file
    di,              \* send_alerts: index of the next destination
    attempts,        \* what each sender invocation did, in order
    report,          \* the line send_alerts printed about the routing
    sprint_cfg,      \* settings["jira"]["sprint_id"]: "absent", "auto" or an id
    requests,        \* fetch_jira_dataframe: the HTTP requests issued, in order
    frame            \* fetch_jira_dataframe: the rows collected (df)

pure_vars == <<rows, score, overloaded, kpis>>
gen_vars == <<mode, qi, csv, error>>
alert_vars == <<alerts_enabled, destinations, critical_issues, di, attempts, report>>
fetch_vars == <<sprint_cfg, requests, frame>>
vars == <<pc, pure_vars, gen_vars, alert_vars, fetch_vars>>

(***************************************************************************)
(* Bounds of the model.                                                    *)
(***************************************************************************)
MaxHealthRows == 4

(***************************************************************************)
(* Generic helpers.                                                        *)
(***************************************************************************)
SeqsUpTo(S, n) == UNION {[1..k -> S] : k \in 0..n}

Max2(a, b) == IF a >= b THEN a ELSE b

(***************************************************************************)
(* dashboard.py: calculate_sprint_health                                   *)
(***************************************************************************)
IsCritical(r) == r.Alert_Level = "CRITICAL"
IsWarning(r) == r.Alert_Level = "WARNING"
IsHighUnassigned(r) == r.Alert_Level = "HIGH" /\ r.Assignee = "UNASSIGNED"

calculate_sprint_health_floor0(df) ==
    LET blockers == Len(SelectSeq(df, IsCritical))
        stalled == Len(SelectSeq(df, IsWarning))
        unassigned == Len(SelectSeq(df, IsHighUnassigned))
    IN  Max2(100 - blockers * 25 - stalled * 10 - unassigned * 5, 0)

calculate_sprint_health(df) ==
    LET blockers == Len(SelectSeq(df, IsCritical))
        stalled == Len(SelectSeq(df, IsWarning))
        unassigned == Len(SelectSeq(df, IsHighUnassigned))
    IN  Max2(100 - blockers * 25 - stalled * 10 - unassigned * 5, 5)

\* Record sets handed to the scorer: every alert level,
\* owners with and without the sentinel, and two values of unrelated fields.
HealthRowSet ==
    [Alert_Level : {"CRITICAL", "WARNING", "HIGH", "DONE"},
     Assignee : {"Alice Smith", "UNASSIGNED"},
     Status : {"Blocked", "Done"},
     Story_Points : {3}]

NoOverload == [analyse |-> <<>>, manager |-> <<>>]
NoKpis == [committed |-> 0, completed |-> 0, delivery_pct10 |-> 0,
           carryover |-> 0, risks |-> <<>>, recs |-> <<>>]
NoFile == [exists |-> FALSE, rows |-> <<>>]

\* The parts of the state an entry point does not touch.
PureIdle == rows = <<>> /\ score = 0 /\ overloaded = NoOverload /\ kpis = NoKpis
GenIdle == mode = "mock" /\ qi = 1 /\ csv = NoFile /\ error = "none"
AlertIdle ==
    /\ alerts_enabled = FALSE
    /\ destinations = <<>>
    /\ critical_issues = <<>>
    /\ di = 1
    /\ attempts = <<>>
    /\ report = ""
FetchIdle == sprint_cfg = "absent" /\ requests = <<>> /\ frame = <<>>

InitHealth ==
    /\ pc = "loaded"
    /\ \E k \in 0..MaxHealthRows : rows \in [1..k -> HealthRowSet]
    /\ score = 0
    /\ overloaded = NoOverload
    /\ kpis = NoKpis
    /\ GenIdle /\ AlertIdle /\ FetchIdle

\* generate_dashboard's call: health_score=calculate_sprint_health(df)
ScoreHealth ==
    /\ pc = "loaded"
    /\ score' = calculate_sprint_health(rows)
    /\ pc' = "scored"
    /\ UNCHANGED <<rows, overloaded, kpis, gen_vars, alert_vars, fetch_vars>>

NextHealth == ScoreHealth

SpecHealth == InitHealth /\ [][NextHealth]_vars

\* The counts the claim speaks of, taken directly from the record set.
NumWith(level) == Cardinality({i \in DOMAIN rows : rows[i].Alert_Level = level})
NumHighUnassigned ==
    Cardinality({i \in DOMAIN rows :
        rows[i].Alert_Level = "HIGH" /\ rows[i].Assignee = "UNASSIGNED"})
ExpectedHealth ==
    Max2(100 - 25 * NumWith("CRITICAL") - 10 * NumWith("WARNING")
             - 5 * NumHighUnassigned, 5)

\* C1: for every record set (the empty one included) the health score is an
\* integer in [5, 100] equal to max(100 - 25*C - 10*W - 5*U, 5), with C, W, U
\* the CRITICAL, WARNING and unassigned-HIGH counts; the Status and
\* Story_Points of the records, which vary in the input, do not enter it.
C1_HealthFormula ==
    pc = "scored" =>
        /\ score \in 5..100
        /\ score = ExpectedHealth

\* C1 witness: a scored record set of four CRITICAL rows, whose raw score 0
\* is lifted to the floor 5, with rows whose other fields differ.
C1_Witness ==
    /\ pc = "scored"
    /\ score = 5
    /\ NumWith("CRITICAL") = 4
    /\ \E i, j \in DOMAIN rows : rows[i].Status # rows[j].Status

(***************************************************************************)
(* Text cells of the record file.  csv.writer writes str(value) and         *)
(* csv.DictReader hands every cell back as text; a cell is modelled as the  *)
(* sequence of its characters.                                             *)
(***************************************************************************)
DigitChars == <<"0", "1", "2", "3", "4", "5", "6", "7", "8", "9">>

DigitVal(c) == CHOOSE d \in 0..9 : DigitChars[d + 1] = c

RECURSIVE str(_)
\* str(n) of a non-negative int: its decimal digits
str(n) ==
    IF n < 10 THEN <<DigitChars[n + 1]>>
    ELSE str(n \div 10) \o <<DigitChars[(n % 10) + 1]>>

\* str.isdigit(): non-empty and every character a digit
isdigit(s) ==
    /\ Len(s) > 0
    /\ \A i \in 1..Len(s) : \E d \in 1..10 : DigitChars[d] = s[i]

RECURSIVE int(_)
\* int(s) of a digit string
int(s) ==
    IF s = <<>> THEN 0
    ELSE int(SubSeq(s, 1, Len(s) - 1)) * 10 + DigitVal(s[Len(s)])

(***************************************************************************)
(* sprint_checker.py: analyse_csv, section 4 (workload analysis), and      *)
(* insights_service.py: build_private_manager_report (workload analysis).  *)
(***************************************************************************)
OVERLOAD_THRESHOLD == 13

\* sp = int(r["Story_Points"]) if r["Story_Points"].isdigit() else 0
story_points_of(r) == IF isdigit(r.Story_Points) THEN int(r.Story_Points) ELSE 0

RECURSIVE workload_keys(_)
\* the keys of the workload dict, in insertion order (first appearance)
workload_keys(rs) ==
    IF rs = <<>> THEN <<>>
    ELSE LET before == workload_keys(SubSeq(rs, 1, Len(rs) - 1))
             person == rs[Len(rs)].Assignee
         IN  IF \E i \in 1..Len(before) : before[i] = person
             THEN before
             ELSE Append(before, person)

RECURSIVE workload_total(_, _)
\* workload[person] after the loop: workload.get(person, 0) + sp per row
workload_total(rs, person) ==
    IF rs = <<>> THEN 0
    ELSE workload_total(SubSeq(rs, 1, Len(rs) - 1), person)
         + (IF rs[Len(rs)].Assignee = person
            THEN story_points_of(rs[Len(rs)]) ELSE 0)

analyse_csv_overloaded_keeps_sentinel(rs) ==
    LET Over(p) == workload_total(rs, p) >= OVERLOAD_THRESHOLD
    IN  SelectSeq(workload_keys(rs), Over)

\* overloaded = [p for p, total in workload.items()
\*               if total >= 13 and p != "UNASSIGNED"]
analyse_csv_overloaded(rs) ==
    LET Over(p) == workload_total(rs, p) >= OVERLOAD_THRESHOLD /\ p # "UNASSIGNED"
    IN  SelectSeq(workload_keys(rs), Over)

\* overloaded = [p for p, sp in workload.items() if sp >= 13 and p != "UNASSIGNED"]
manager_report_overloaded(rs) ==
    LET Over(p) == workload_total(rs, p) >= OVERLOAD_THRESHOLD /\ p # "UNASSIGNED"
    IN  SelectSeq(workload_keys(rs), Over)

MaxWorkRows == 3

\* Story points of the records under analysis; None is written as the empty
\* cell, every other value as its decimal digits.
WorkPoints == {0, 5, 8, 13}
WorkCells == {<<>>} \cup {str(n) : n \in WorkPoints}

WorkRowSet ==
    [Alert_Level : {"CRITICAL", "DONE"},
     Assignee : {"Alice Smith", "Bob Jones", "UNASSIGNED"},
     Status : {"In Progress"},
     Story_Points : WorkCells]

InitWorkload ==
    /\ pc = "loaded"
    /\ \E k \in 0..MaxWorkRows : rows \in [1..k -> WorkRowSet]
    /\ score = 0
    /\ overloaded = NoOverload
    /\ kpis = NoKpis
    /\ GenIdle /\ AlertIdle /\ FetchIdle

\* run of both analysers over the same rows of the record file
AnalyseWorkload ==
    /\ pc = "loaded"
    /\ overloaded' = [analyse |-> analyse_csv_overloaded(rows),
                      manager |-> manager_report_overloaded(rows)]
    /\ pc' = "analysed"
    /\ UNCHANGED <<rows, score, kpis, gen_vars, alert_vars, fetch_vars>>

NextWorkload == AnalyseWorkload

SpecWorkload == InitWorkload /\ [][NextWorkload]_vars

\* The story points a record carries: the number its cell denotes, 0 for
\* the empty cell.
PointsOfCell(c) == IF c = <<>> THEN 0 ELSE CHOOSE n \in 0..99 : str(n) = c

RECURSIVE SumPoints(_, _)
SumPoints(idx, person) ==
    IF idx = {} THEN 0
    ELSE LET i == CHOOSE j \in idx : TRUE
         IN  (IF rows[i].Assignee = person
              THEN PointsOfCell(rows[i].Story_Points) ELSE 0)
             + SumPoints(idx \ {i}, person)

Owners == {"Alice Smith", "Bob Jones", "UNASSIGNED"}

InList(list, p) == \E i \in 1..Len(list) : list[i] = p

\* C7: in both workload analyses an assignee is in the overload list if and
\* only if it is not UNASSIGNED and the story points of all its records sum
\* to 13 or more; UNASSIGNED is never listed, whatever its total.
C7_OverloadIff ==
    pc = "analysed" =>
        \A p \in Owners :
            LET flagged == p # "UNASSIGNED" /\ SumPoints(DOMAIN rows, p) >= 13
            IN  /\ InList(overloaded.analyse, p) <=> flagged
                /\ InList(overloaded.manager, p) <=> flagged

\* C7 witness: after the analysis, one owner reaches exactly 13 over two
\* records and is listed, another stays below, and UNASSIGNED totals 13
\* without being listed.
C7_Witness ==
    /\ pc = "analysed"
    /\ Len(rows) = 3
    /\ SumPoints(DOMAIN rows, "Alice Smith") = 13
    /\ \E i \in DOMAIN rows : rows[i].Assignee = "Alice Smith"
                              /\ rows[i].Story_Points = str(5)
    /\ SumPoints(DOMAIN rows, "UNASSIGNED") = 13
    /\ overloaded.analyse = <<"Alice Smith">>
    /\ overloaded.manager = <<"Alice Smith">>


(***************************************************************************)
(* executive_sprint_summary.py: compute_kpis                               *)
(***************************************************************************)
RECURSIVE sum_points(_)
\* df["Story_Points"].sum()
sum_points(df) ==
    IF df = <<>> THEN 0
    ELSE sum_points(SubSeq(df, 1, Len(df) - 1)) + df[Len(df)].Story_Points

IsDone(r) == r.Status = "Done"
IsBlocked(r) == r.Status = "Blocked"
IsStalled(r) == r.Status = "In Progress" /\ r.Alert_Level = "WARNING"

\* str.upper() on the owner names of the model
upper(name) ==
    CASE name = "Unassigned" -> "UNASSIGNED"
      [] name = "Alice Smith" -> "ALICE SMITH"
      [] OTHER -> name

IsUnassignedOwner(r) == upper(r.Assignee) = "UNASSIGNED"

\* round(num / den, 0) for num >= 0, den > 0: nearest integer, ties to even
round_half_even(num, den) ==
    LET q == num \div den
        r == num % den
    IN  IF 2 * r < den THEN q
        ELSE IF 2 * r > den THEN q + 1
        ELSE IF q % 2 = 0 THEN q ELSE q + 1

\* delivery_pct = round((completed / committed * 100), 1) if committed else 0,
\* kept in tenths of a percent
delivery_pct10_of(completed, committed) ==
    IF committed # 0 THEN round_half_even(completed * 1000, committed) ELSE 0

PLACEHOLDER_RISK == "No major risks detected."
PLACEHOLDER_REC == "Flow appears stable - maintain current practices."

cond_append(list, cond, msg) == IF cond THEN Append(list, msg) ELSE list

kpi_risks_placeholder_always(blockers, stalled, unassigned, carryover, committed) ==
    LET r1 == cond_append(<<>>, blockers # 0, "blockers are impacting throughput.")
        r2 == cond_append(r1, stalled # 0, "items show prolonged inactivity.")
        r3 == cond_append(r2, unassigned # 0,
                          "Unassigned high-priority work is delaying flow.")
        r4 == cond_append(r3, 10 * carryover > 4 * committed,
                          "SP likely rolling to next sprint.")
    IN  Append(r4, PLACEHOLDER_RISK)

\* the risks list; carryover > committed * 0.4 is compared in tenths
kpi_risks(blockers, stalled, unassigned, carryover, committed) ==
    LET r1 == cond_append(<<>>, blockers # 0, "blockers are impacting throughput.")
        r2 == cond_append(r1, stalled # 0, "items show prolonged inactivity.")
        r3 == cond_append(r2, unassigned # 0,
                          "Unassigned high-priority work is delaying flow.")
        r4 == cond_append(r3, 10 * carryover > 4 * committed,
                          "SP likely rolling to next sprint.")
    IN  cond_append(r4, r4 = <<>>, PLACEHOLDER_RISK)

kpi_recs_delivery_only_if_quiet(blockers, stalled, unassigned, delivery_pct10) ==
    LET r1 == cond_append(<<>>, blockers # 0,
                          "Escalate dependency blockers within 24h.")
        r2 == cond_append(r1, stalled # 0,
                          "Introduce aged-WIP triage at daily standup.")
        r3 == cond_append(r2, unassigned # 0,
                          "Prevent unassigned high-priority items entering sprint.")
        r4 == cond_append(r3, r3 = <<>> /\ delivery_pct10 < 800,
                          "Reduce WIP or slice stories smaller next sprint.")
    IN  cond_append(r4, r4 = <<>>, PLACEHOLDER_REC)

\* the recs list; delivery_pct < 80 is compared in tenths
kpi_recs(blockers, stalled, unassigned, delivery_pct10) ==
    LET r1 == cond_append(<<>>, blockers # 0,
                          "Escalate dependency blockers within 24h.")
        r2 == cond_append(r1, stalled # 0,
                          "Introduce aged-WIP triage at daily standup.")
        r3 == cond_append(r2, unassigned # 0,
                          "Prevent unassigned high-priority items entering sprint.")
        r4 == cond_append(r3, delivery_pct10 < 800,
                          "Reduce WIP or slice stories smaller next sprint.")
    IN  cond_append(r4, r4 = <<>>, PLACEHOLDER_REC)

compute_kpis_completed_all(df) == sum_points(df)

\* completed = df[df["Status"] == "Done"]["Story_Points"].sum()
compute_kpis_completed(df) == sum_points(SelectSeq(df, IsDone))

compute_kpis(df) ==
    LET committed == sum_points(df)
        completed == compute_kpis_completed(df)
        delivery_pct10 == delivery_pct10_of(completed, committed)
        carryover == committed - completed
        blockers == Len(SelectSeq(df, IsBlocked))
        stalled == Len(SelectSeq(df, IsStalled))
        unassigned == Len(SelectSeq(df, IsUnassignedOwner))
    IN  [committed |-> committed,
         completed |-> completed,
         delivery_pct10 |-> delivery_pct10,
         carryover |-> carryover,
         risks |-> kpi_risks(blockers, stalled, unassigned, carryover, committed),
         recs |-> kpi_recs(blockers, stalled, unassigned, delivery_pct10)]

MaxKpiRows == 3

\* Story points of the record sets handed to the KPI engine (non-negative).
KpiPoints == {0, 12, 28}

KpiRowSet ==
    [Alert_Level : {"WARNING", "DONE"},
     Assignee : {"Alice Smith", "Unassigned"},
     Status : {"Done", "Blocked", "In Progress"},
     Story_Points : KpiPoints]

InitKpi ==
    /\ pc = "loaded"
    /\ \E k \in 0..MaxKpiRows : rows \in [1..k -> KpiRowSet]
    /\ score = 0
    /\ overloaded = NoOverload
    /\ kpis = NoKpis
    /\ GenIdle /\ AlertIdle /\ FetchIdle

\* generate_executive_html's call: kpis = compute_kpis(df)
ComputeKpis ==
    /\ pc = "loaded"
    /\ kpis' = compute_kpis(rows)
    /\ pc' = "kpis"
    /\ UNCHANGED <<rows, score, overloaded, gen_vars, alert_vars, fetch_vars>>

NextKpi == ComputeKpis

SpecKpi == InitKpi /\ [][NextKpi]_vars

RECURSIVE SumOver(_)
\* story points summed over a set of row indices
SumOver(idx) ==
    IF idx = {} THEN 0
    ELSE LET i == CHOOSE j \in idx : TRUE
         IN  rows[i].Story_Points + SumOver(idx \ {i})

DoneIdx == {i \in DOMAIN rows : rows[i].Status = "Done"}

\* C9: committed is the sum of Story_Points over all records, completed the
\* sum over the records whose Status is Done, carryover their difference,
\* delivery_pct the quotient completed/committed*100 to the nearest tenth
\* (0 when committed is 0); and 0 <= completed <= committed,
\* 0 <= delivery_pct <= 100.
C9_KpiSums ==
    pc = "kpis" =>
        /\ kpis.committed = SumOver(DOMAIN rows)
        /\ kpis.completed = SumOver(DoneIdx)
        /\ kpis.carryover = kpis.committed - kpis.completed
        /\ kpis.committed = 0 => kpis.delivery_pct10 = 0
        /\ kpis.committed # 0 =>
              LET diff == kpis.delivery_pct10 * kpis.committed
                          - 1000 * kpis.completed
              IN  2 * diff <= kpis.committed /\ -2 * diff <= kpis.committed
        /\ 0 <= kpis.completed /\ kpis.completed <= kpis.committed
        /\ 0 <= kpis.delivery_pct10 /\ kpis.delivery_pct10 <= 1000

\* C9 witness: a bundle whose percentage needed rounding (28 of 52 points
\* done is 53.846..%, reported as 53.8) next to non-Done points.
C9_Witness ==
    /\ pc = "kpis"
    /\ kpis.committed = 52
    /\ kpis.completed = 28
    /\ kpis.carryover = 24
    /\ kpis.delivery_pct10 = 538

\* which rules fire, read off the record set
BlockersPresent == \E i \in DOMAIN rows : rows[i].Status = "Blocked"
StalledPresent ==
    \E i \in DOMAIN rows :
        rows[i].Status = "In Progress" /\ rows[i].Alert_Level = "WARNING"
UnassignedPresent ==
    \E i \in DOMAIN rows : rows[i].Assignee \in {"UNASSIGNED", "Unassigned"}
CarryoverHigh ==
    10 * (SumOver(DOMAIN rows) - SumOver(DoneIdx)) > 4 * SumOver(DOMAIN rows)
DeliveryLow ==
    \/ SumOver(DOMAIN rows) = 0
    \/ 2000 * SumOver(DoneIdx) < 1599 * SumOver(DOMAIN rows)

RiskRuleFired ==
    BlockersPresent \/ StalledPresent \/ UnassignedPresent \/ CarryoverHigh
RecRuleFired ==
    BlockersPresent \/ StalledPresent \/ UnassignedPresent \/ DeliveryLow

\* C10: risks and recs are never empty; the "no major risk" placeholder is
\* the only risk exactly when no risk rule fired and the "maintain current
\* practice" placeholder the only recommendation exactly when no
\* recommendation rule fired; a placeholder never stands beside a rule's
\* message.
C10_Placeholders ==
    pc = "kpis" =>
        /\ Len(kpis.risks) >= 1
        /\ Len(kpis.recs) >= 1
        /\ (kpis.risks = <<PLACEHOLDER_RISK>>) <=> ~RiskRuleFired
        /\ (kpis.recs = <<PLACEHOLDER_REC>>) <=> ~RecRuleFired
        /\ InList(kpis.risks, PLACEHOLDER_RISK) => Len(kpis.risks) = 1
        /\ InList(kpis.recs, PLACEHOLDER_REC) => Len(kpis.recs) = 1

\* C10 witness: 28 of 40 points done and nothing blocked, stalled or
\* unassigned: no risk rule fired, so the placeholder is the only risk, while
\* the delivery rule fired and its message stands alone in recs.
C10_Witness ==
    /\ pc = "kpis"
    /\ kpis.committed = 40
    /\ kpis.completed = 28
    /\ kpis.risks = <<PLACEHOLDER_RISK>>
    /\ kpis.recs = <<"Reduce WIP or slice stories smaller next sprint.">>

(***************************************************************************)
(* sprint_checker.py: run_query, _mock_data, generate_csv                  *)
(*                                                                         *)
(* A raw issue is [key, status, assignee, story]: assignee is the           *)
(* fields["assignee"] entry ([kind |-> "absent"] when the key is missing,  *)
(* [kind |-> "null"] for None, [kind |-> "dict", displayName |-> ..]),     *)
(* story the fields["customfield_10024"] entry.                            *)
(***************************************************************************)
Absent == [kind |-> "absent"]
Null == [kind |-> "null"]
Person(name) == [kind |-> "dict", displayName |-> name]
Story(n) == [kind |-> "int", value |-> n]

\* the keys of the queries dict, in insertion order
QUERY_NAMES == <<"blockers", "stalled", "unassigned">>

\* the substrings _mock_data looks for, as they occur in each query's JQL
jql_of(name) ==
    CASE name = "blockers" -> {"Blocked"}
      [] name = "stalled" -> {"updated <="}
      [] name = "unassigned" -> {"assignee is EMPTY"}
      [] OTHER -> {}

\* make(key, summary, status, assignee, priority, days_ago): one fixture,
\* its story points still to be drawn
make(key, status, assignee) ==
    [key |-> key, status |-> status,
     assignee |-> IF assignee = "None" THEN Null ELSE Person(assignee)]

mock_fixtures(jql) ==
    IF "Blocked" \in jql THEN
        <<make("GK-124", "Blocked", "Alice Smith"),
          make("GK-131", "Blocked", "Bob Jones")>>
    ELSE IF "updated <=" \in jql THEN
        <<make("GK-115", "In Progress", "Charlie Brown"),
          make("GK-119", "In Progress", "Diana Prince")>>
    ELSE IF "assignee is EMPTY" \in jql THEN
        <<make("GK-130", "To Do", "None")>>
    ELSE
        <<make("GK-125", "In Progress", "Eve Adams")>>

\* "customfield_10024": random.choice([1, 2, 3, 5])
MOCK_POINT_CHOICES == {1, 2, 3, 5}

\* fields.get("customfield_10024", random.choice([2, 3, 5]))
DEFAULT_POINT_CHOICES == {2, 3, 5}

\* _mock_data(jql), with draws[i] the story points drawn for fixture i
mock_data(jql, draws) ==
    LET fx == mock_fixtures(jql)
    IN  [i \in 1..Len(fx) |->
            [key |-> fx[i].key, status |-> fx[i].status,
             assignee |-> fx[i].assignee, story |-> Story(draws[i])]]

\* "CRITICAL" if name == "blockers" else "WARNING" if name == "stalled" else "HIGH"
alert_level_of(name) ==
    IF name = "blockers" THEN "CRITICAL"
    ELSE IF name = "stalled" THEN "WARNING"
    ELSE "HIGH"

\* fields["assignee"] raises KeyError when the key is missing
assignee_raises(issue) == issue.assignee.kind = "absent"

\* fields["assignee"]["displayName"] if fields["assignee"] else "UNASSIGNED"
assignee_cell(issue) ==
    IF issue.assignee.kind = "dict" THEN issue.assignee.displayName
    ELSE "UNASSIGNED"

\* fields.get("customfield_10024", default), written by csv.writer as text
story_cell(issue, default) ==
    IF issue.story.kind = "int" THEN str(issue.story.value) ELSE str(default)

\* the row writer.writerow receives for one issue
csv_row(name, issue, default) ==
    [Query_Type |-> name,
     Issue_Key |-> issue.key,
     Status |-> issue.status,
     Assignee |-> assignee_cell(issue),
     Story_Points |-> story_cell(issue, default),
     Alert_Level |-> alert_level_of(name)]

RECURSIVE write_rows(_, _, _)
\* the inner loop "for issue in issues": the rows written, and whether the
\* loop was left by an exception (rows written before it stay in the file)
write_rows(name, issues, defaults) ==
    IF issues = <<>> THEN [rows |-> <<>>, raised |-> FALSE]
    ELSE LET n == Len(issues)
             before == write_rows(name, SubSeq(issues, 1, n - 1),
                                  SubSeq(defaults, 1, n - 1))
         IN  IF before.raised THEN before
             ELSE IF assignee_raises(issues[n])
                  THEN [rows |-> before.rows, raised |-> TRUE]
                  ELSE [rows |-> Append(before.rows,
                                        csv_row(name, issues[n], defaults[n])),
                        raised |-> FALSE]

MaxLiveIssues == 1

\* What the search endpoint may return for one issue: the story-points
\* field is not among the requested fields, the assignee is a user, null or
\* (a payload without the key) absent.
LiveIssueSet ==
    [key : {"GK-201"}, status : {"In Progress"},
     assignee : {Absent, Null, Person("Frank Moore")},
     story : {[kind |-> "absent"]}]

InitGen ==
    /\ pc = "start"
    /\ mode \in {"mock", "live"}
    /\ qi = 1
    /\ csv = NoFile
    /\ error = "none"
    /\ PureIdle /\ AlertIdle /\ FetchIdle

\* generate_csv up to the loop: open(csv_file, 'w') and the header row
OpenCsv ==
    /\ pc = "start"
    /\ csv' = [exists |-> TRUE, rows |-> <<>>]
    /\ pc' = "querying"
    /\ UNCHANGED <<mode, qi, error, pure_vars, alert_vars, fetch_vars>>

\* one pass of "for name, jql in queries.items()" given what run_query returned
LoopPass(name, issues, defaults) ==
    LET w == write_rows(name, issues, defaults)
    IN  /\ csv' = [csv EXCEPT !.rows = csv.rows \o w.rows]
        /\ IF w.raised
           THEN /\ pc' = "aborted"
                /\ error' = "KeyError"
                /\ qi' = qi
           ELSE /\ pc' = "querying"
                /\ error' = error
                /\ qi' = qi + 1

\* mock mode: run_query returns _mock_data(jql)
QueryMock ==
    /\ pc = "querying"
    /\ mode = "mock"
    /\ qi <= Len(QUERY_NAMES)
    /\ LET name == QUERY_NAMES[qi]
           n == Len(mock_fixtures(jql_of(name)))
       IN  \E draws \in [1..n -> MOCK_POINT_CHOICES] :
           \E defaults \in [1..n -> DEFAULT_POINT_CHOICES] :
               LoopPass(name, mock_data(jql_of(name), draws), defaults)
    /\ UNCHANGED <<mode, pure_vars, alert_vars, fetch_vars>>

\* live mode: the search request succeeds and returns response.json()["issues"]
QueryLive ==
    /\ pc = "querying"
    /\ mode = "live"
    /\ qi <= Len(QUERY_NAMES)
    /\ \E issues \in SeqsUpTo(LiveIssueSet, MaxLiveIssues) :
       \E defaults \in [1..Len(issues) -> DEFAULT_POINT_CHOICES] :
           LoopPass(QUERY_NAMES[qi], issues, defaults)
    /\ UNCHANGED <<mode, pure_vars, alert_vars, fetch_vars>>

\* live mode: requests.get or response.raise_for_status() raises; the
\* exception leaves the with block, which closes the file as written so far
QueryRaises ==
    /\ pc = "querying"
    /\ mode = "live"
    /\ qi <= Len(QUERY_NAMES)
    /\ pc' = "aborted"
    /\ error' = "HTTPError"
    /\ UNCHANGED <<mode, qi, csv, pure_vars, alert_vars, fetch_vars>>

\* the loop is over: the file is closed and generate_csv returns csv_file
CloseCsv ==
    /\ pc = "querying"
    /\ qi = Len(QUERY_NAMES) + 1
    /\ pc' = "generated"
    /\ UNCHANGED <<gen_vars, pure_vars, alert_vars, fetch_vars>>

\* generate_dashboard(csv_file): load the file, score it
Dashboard ==
    /\ pc = "generated"
    /\ rows' = csv.rows
    /\ score' = calculate_sprint_health(csv.rows)
    /\ pc' = "scored"
    /\ UNCHANGED <<overloaded, kpis, gen_vars, alert_vars, fetch_vars>>

Next == OpenCsv \/ QueryMock \/ QueryLive \/ QueryRaises \/ CloseCsv \/ Dashboard

Spec == InitGen /\ [][Next]_vars


(***************************************************************************)
(* sprint_checker.py: _get_critical_issues, send_alerts and the senders    *)
(*                                                                         *)
(* A destination is [type, enabled, missing]: its key in the destinations  *)
(* map, config.get("enabled", False), and the fields its sender requires   *)
(* that are absent or empty in the configuration.                          *)
(***************************************************************************)
KNOWN_TYPES == {"slack", "teams", "email"}
DestTypes == KNOWN_TYPES \cup {"pagerduty"}

required_fields_without_recipients(type) ==
    CASE type \in {"slack", "teams"} -> {"webhook_url"}
      [] type = "email" -> {"smtp_server", "smtp_port", "username", "password",
                            "from_address"}
      [] OTHER -> {}

\* the fields a sender checks before it delivers
required_fields(type) ==
    CASE type \in {"slack", "teams"} -> {"webhook_url"}
      [] type = "email" -> {"smtp_server", "smtp_port", "username", "password",
                            "from_address", "to_addresses"}
      [] OTHER -> {}

MissingChoices(type) ==
    CASE type \in {"slack", "teams"} -> {{}, {"webhook_url"}}
      [] type = "email" ->
            {{}, {"subject_prefix"}}
            \cup {{f} : f \in {"smtp_server", "smtp_port", "username",
                                "password", "from_address", "to_addresses"}}
      [] OTHER -> {{}}

\* missing = [f for f in required_fields if not config.get(f)]
missing_required(config) == config.missing \cap required_fields(config.type)

DestConfigSet ==
    UNION {[type : {t}, enabled : BOOLEAN, missing : MissingChoices(t)] :
           t \in DestTypes}

\* the destinations map of settings.json: its entries in order, keys distinct
DestinationMaps ==
    {d \in SeqsUpTo(DestConfigSet, Cardinality(DestTypes)) :
        \A i, j \in 1..Len(d) : i # j => d[i].type # d[j].type}

get_critical_issues_all_rows(file) ==
    IF file.exists THEN file.rows ELSE <<>>

\* _get_critical_issues: the CRITICAL rows, [] when the file is not found
get_critical_issues(file) ==
    IF file.exists THEN SelectSeq(file.rows, IsCritical) ELSE <<>>

on_sender_exception_propagates(dest_type) == "propagate"

\* except Exception as e: print(...) - the loop goes on to the next entry
on_sender_exception(dest_type) == "continue"

MaxAlertRows == 2

\* rows of the record file as generate_csv writes them
AlertRowSet ==
    {csv_row("blockers", mock_data(jql_of("blockers"), <<1, 1>>)[1], 2),
     csv_row("stalled", mock_data(jql_of("stalled"), <<1, 1>>)[1], 2)}

AlertFiles ==
    {NoFile} \cup {[exists |-> TRUE, rows |-> r] :
                   r \in SeqsUpTo(AlertRowSet, MaxAlertRows)}

InitAlerts ==
    /\ pc = "send_alerts"
    /\ alerts_enabled \in BOOLEAN
    /\ destinations \in DestinationMaps
    /\ critical_issues = <<>>
    /\ di = 1
    /\ attempts = <<>>
    /\ report = ""
    /\ mode = "mock" /\ qi = 1 /\ error = "none"
    /\ csv \in AlertFiles
    /\ PureIdle /\ FetchIdle

alert_frame == <<alerts_enabled, destinations, pure_vars, gen_vars, fetch_vars>>

\* if not self.alerts_enabled: return
AlertsDisabled_falls_through ==
    /\ pc = "send_alerts"
    /\ ~alerts_enabled
    /\ critical_issues' = get_critical_issues(csv)
    /\ report' = "Alerts are disabled globally"
    /\ pc' = IF destinations # <<>> /\ get_critical_issues(csv) # <<>>
             THEN "routing" ELSE "returned"
    /\ UNCHANGED <<di, attempts, alert_frame>>

AlertsDisabled ==
    /\ pc = "send_alerts"
    /\ ~alerts_enabled
    /\ report' = "Alerts are disabled globally"
    /\ pc' = "returned"
    /\ UNCHANGED <<critical_issues, di, attempts, alert_frame>>

\* if not self.destinations: return
NoDestinations ==
    /\ pc = "send_alerts"
    /\ alerts_enabled
    /\ destinations = <<>>
    /\ report' = "No alert destinations configured"
    /\ pc' = "returned"
    /\ UNCHANGED <<critical_issues, di, attempts, alert_frame>>

NoCritical_missing_file_raises ==
    /\ pc = "send_alerts"
    /\ alerts_enabled
    /\ destinations # <<>>
    /\ get_critical_issues(csv) = <<>>
    /\ critical_issues' = <<>>
    /\ IF csv.exists
       THEN /\ report' = "No critical alerts to send"
            /\ pc' = "returned"
            /\ error' = error
       ELSE /\ report' = report
            /\ pc' = "crashed"
            /\ error' = "FileNotFoundError"
    /\ UNCHANGED <<di, attempts, alerts_enabled, destinations, mode, qi, csv,
                   pure_vars, fetch_vars>>

\* critical_issues = self._get_critical_issues(csv_file); empty: return
NoCritical ==
    /\ pc = "send_alerts"
    /\ alerts_enabled
    /\ destinations # <<>>
    /\ get_critical_issues(csv) = <<>>
    /\ critical_issues' = <<>>
    /\ report' = "No critical alerts to send"
    /\ pc' = "returned"
    /\ UNCHANGED <<di, attempts, alert_frame>>

\* critical_issues is not empty: enter the loop over the destinations
BeginRouting ==
    /\ pc = "send_alerts"
    /\ alerts_enabled
    /\ destinations # <<>>
    /\ get_critical_issues(csv) # <<>>
    /\ critical_issues' = get_critical_issues(csv)
    /\ report' = "Found critical issue(s), routing to enabled destinations"
    /\ pc' = "routing"
    /\ UNCHANGED <<di, attempts, alert_frame>>

InLoop == pc = "routing" /\ di <= Len(destinations)

\* one entry per pass that got past the enabled check: the destination, what
\* happened, and the missing fields the sender printed (if it declined)
Logged(outcome) ==
    Append(attempts,
           [dest |-> destinations[di].type,
            outcome |-> outcome,
            missing |-> IF outcome = "not_configured"
                        THEN missing_required(destinations[di]) ELSE {}])

SkipDisabled_delivers ==
    /\ InLoop
    /\ ~destinations[di].enabled
    /\ attempts' = Logged("sent")
    /\ di' = di + 1
    /\ UNCHANGED <<pc, critical_issues, report, alert_frame>>

\* if not config.get("enabled", False): continue
SkipDisabled ==
    /\ InLoop
    /\ ~destinations[di].enabled
    /\ di' = di + 1
    /\ UNCHANGED <<pc, critical_issues, attempts, report, alert_frame>>

\* else: print("Unknown destination type")
UnknownType ==
    /\ InLoop
    /\ destinations[di].enabled
    /\ destinations[di].type \notin KNOWN_TYPES
    /\ attempts' = Logged("unknown_type")
    /\ di' = di + 1
    /\ UNCHANGED <<pc, critical_issues, report, alert_frame>>

\* the sender finds a required field missing, prints a warning and returns
SenderDeclines ==
    /\ InLoop
    /\ destinations[di].enabled
    /\ destinations[di].type \in KNOWN_TYPES
    /\ missing_required(destinations[di]) # {}
    /\ attempts' = Logged("not_configured")
    /\ di' = di + 1
    /\ UNCHANGED <<pc, critical_issues, report, alert_frame>>

\* the sender posts the webhook / sends the mail and returns
Deliver ==
    /\ InLoop
    /\ destinations[di].enabled
    /\ destinations[di].type \in KNOWN_TYPES
    /\ missing_required(destinations[di]) = {}
    /\ attempts' = Logged("sent")
    /\ di' = di + 1
    /\ UNCHANGED <<pc, critical_issues, report, alert_frame>>

\* the sender raises (requests.post, raise_for_status, smtplib ...)
DeliverRaises ==
    /\ InLoop
    /\ destinations[di].enabled
    /\ destinations[di].type \in KNOWN_TYPES
    /\ missing_required(destinations[di]) = {}
    /\ attempts' = Logged("raised")
    /\ IF on_sender_exception(destinations[di].type) = "continue"
       THEN /\ di' = di + 1
            /\ UNCHANGED <<pc, error>>
       ELSE /\ pc' = "crashed"
            /\ error' = "Exception"
            /\ di' = di
    /\ UNCHANGED <<critical_issues, report, alerts_enabled, destinations,
                   mode, qi, csv, pure_vars, fetch_vars>>

\* the loop has visited every entry: send_alerts returns
FinishRouting ==
    /\ pc = "routing"
    /\ di = Len(destinations) + 1
    /\ pc' = "returned"
    /\ UNCHANGED <<critical_issues, di, attempts, report, alert_frame>>

NextAlerts ==
    \/ AlertsDisabled \/ NoDestinations \/ NoCritical \/ BeginRouting
    \/ SkipDisabled \/ UnknownType \/ SenderDeclines \/ Deliver
    \/ DeliverRaises \/ FinishRouting

SpecAlerts == InitAlerts /\ [][NextAlerts]_vars


(***************************************************************************)
(* jira_client.py: fetch_jira_dataframe, get_active_sprint_id              *)
(***************************************************************************)
\* fields.get("assignee", {}).get("displayName", "UNASSIGNED") raises
\* AttributeError when the assignee entry is None
fetch_assignee_raises(item) == item.assignee.kind = "null"

\* fields.get("assignee", {}).get("displayName", "UNASSIGNED")
fetch_assignee(item) ==
    IF item.assignee.kind = "dict" THEN item.assignee.displayName
    ELSE "UNASSIGNED"

\* sp = fields.get(story_field, 0); if sp is None: sp = 0
fetch_story_points(item) ==
    IF item.story.kind = "int" THEN item.story.value ELSE 0

\* query_type = "unknown"
fetch_query_type(item) == "unknown"

\* "Alert_Level": ""
fetch_alert_level(item) == ""

\* the dict appended to rows for one item
fetch_row(item) ==
    [Query_Type |-> fetch_query_type(item),
     Issue_Key |-> item.key,
     Status |-> item.status,
     Assignee |-> fetch_assignee(item),
     Story_Points |-> fetch_story_points(item),
     Alert_Level |-> fetch_alert_level(item)]

\* sprint_id = jira_cfg.get("sprint_id", "auto"); if sprint_id == "auto": ...
needs_sprint_detection_auto_only(cfg) == cfg = "auto"

needs_sprint_detection(cfg) == cfg \in {"absent", "auto"}

MaxFetchIssues == 2

\* What the search endpoint may return for one issue of the sprint.
FetchIssueSet ==
    [key : {"GK-301"}, status : {"Blocked", "Done"},
     assignee : {Absent, Null, Person("Grace Hall")},
     story : {[kind |-> "absent"], [kind |-> "null"], Story(5)}]

InitFetch ==
    /\ pc = "fetch"
    /\ sprint_cfg \in {"absent", "auto", "42"}
    /\ requests = <<>>
    /\ frame = <<>>
    /\ mode = "live" /\ qi = 1 /\ csv = NoFile /\ error = "none"
    /\ PureIdle /\ AlertIdle

fetch_frame == <<sprint_cfg, mode, qi, csv, pure_vars, alert_vars>>

\* get_active_sprint_id: the board's active sprints are listed and the
\* first one is taken
DetectSprint ==
    /\ pc = "fetch"
    /\ needs_sprint_detection(sprint_cfg)
    /\ requests' = Append(requests, "sprint_list")
    /\ pc' = "search"
    /\ UNCHANGED <<frame, error, fetch_frame>>

\* get_active_sprint_id: resp.raise_for_status() raises
DetectSprintRaises ==
    /\ pc = "fetch"
    /\ needs_sprint_detection(sprint_cfg)
    /\ requests' = Append(requests, "sprint_list")
    /\ error' = "HTTPError"
    /\ pc' = "fetch_failed"
    /\ UNCHANGED <<frame, fetch_frame>>

\* get_active_sprint_id: if not sprints: raise Exception("No active sprint ...")
NoActiveSprint ==
    /\ pc = "fetch"
    /\ needs_sprint_detection(sprint_cfg)
    /\ requests' = Append(requests, "sprint_list")
    /\ error' = "NoActiveSprint"
    /\ pc' = "fetch_failed"
    /\ UNCHANGED <<frame, fetch_frame>>

\* a sprint id is configured: no detection
SprintConfigured ==
    /\ pc = "fetch"
    /\ ~needs_sprint_detection(sprint_cfg)
    /\ pc' = "search"
    /\ UNCHANGED <<requests, frame, error, fetch_frame>>

\* the search request's raise_for_status() raises
SearchRaises ==
    /\ pc = "search"
    /\ requests' = Append(requests, "search")
    /\ error' = "HTTPError"
    /\ pc' = "fetch_failed"
    /\ UNCHANGED <<frame, fetch_frame>>

\* the search request returns issues; the loop builds one row per item and
\* the function returns the DataFrame, unless an item makes the loop raise
SearchReturns ==
    /\ pc = "search"
    /\ requests' = Append(requests, "search")
    /\ \E issues \in SeqsUpTo(FetchIssueSet, MaxFetchIssues) :
          IF \E i \in 1..Len(issues) : fetch_assignee_raises(issues[i])
          THEN /\ error' = "AttributeError"
               /\ pc' = "fetch_failed"
               /\ frame' = <<>>
          ELSE /\ error' = error
               /\ pc' = "fetched"
               /\ frame' = [i \in 1..Len(issues) |-> fetch_row(issues[i])]
    /\ UNCHANGED fetch_frame

NextFetch ==
    \/ DetectSprint \/ DetectSprintRaises \/ NoActiveSprint \/ SprintConfigured
    \/ SearchRaises \/ SearchReturns

SpecFetch == InitFetch /\ [][NextFetch]_vars


(***************************************************************************)
(* Properties of the alert router.                                         *)
(***************************************************************************)
IsEnabled(d) == d.enabled

\* the enabled entries among the first n of the configuration
EnabledAmong(n) == SelectSeq(SubSeq(destinations, 1, n), IsEnabled)

\* C2: with a non-empty critical subset, a sender that raises never stops
\* the loop: whatever the position of the failing destination, every
\* enabled destination of the configuration is visited, in order, and
\* send_alerts returns normally instead of passing the error on.
C2_FailureIsolation ==
    /\ pc # "crashed"
    /\ error = "none"
    /\ (pc \in {"routing", "returned"} /\ critical_issues # <<>>) =>
          /\ Len(attempts) = Len(EnabledAmong(di - 1))
          /\ \A k \in 1..Len(attempts) :
                attempts[k].dest = EnabledAmong(di - 1)[k].type
    /\ (pc = "returned" /\ critical_issues # <<>>) => di = Len(destinations) + 1

\* C2 witness: send_alerts has returned after the first destination raised,
\* the second was delivered and the third raised too.
C2_Witness ==
    /\ pc = "returned"
    /\ Len(attempts) = 3
    /\ attempts[1].outcome = "raised"
    /\ attempts[2].outcome = "sent"
    /\ attempts[3].outcome = "raised"

NoCriticalInFile ==
    csv.exists /\ \A i \in DOMAIN csv.rows : csv.rows[i].Alert_Level # "CRITICAL"

\* C3: when the record file holds no CRITICAL record, no sender is invoked,
\* whatever the destination configuration, and send_alerts reports that
\* nothing is sent (the "no critical alerts" line once the configuration
\* checks have passed).
C3_NoCriticalNoDispatch ==
    NoCriticalInFile =>
        /\ attempts = <<>>
        /\ pc # "routing"
        /\ pc = "returned" =>
              report = (IF ~alerts_enabled THEN "Alerts are disabled globally"
                        ELSE IF destinations = <<>>
                             THEN "No alert destinations configured"
                        ELSE "No critical alerts to send")

\* C3 witness: the file holds only WARNING rows, an enabled and fully
\* configured destination exists, and send_alerts has returned with the
\* "no critical alerts" report and no sender invoked.
C3_Witness ==
    /\ pc = "returned"
    /\ alerts_enabled
    /\ csv.exists /\ Len(csv.rows) = 2
    /\ \A i \in DOMAIN csv.rows : csv.rows[i].Alert_Level = "WARNING"
    /\ \E i \in DOMAIN destinations :
          destinations[i].enabled /\ destinations[i].missing = {}
          /\ destinations[i].type = "slack"
    /\ attempts = <<>>
    /\ report = "No critical alerts to send"

(***************************************************************************)
(* Properties of normalization and of the record file.                     *)
(***************************************************************************)
CanonicalLevel(q) ==
    CASE q = "blockers" -> "CRITICAL"
      [] q = "stalled" -> "WARNING"
      [] q = "unassigned" -> "HIGH"
      [] q = "done" -> "DONE"
      [] OTHER -> "none"

ConsistentRow(r) ==
    /\ r.Query_Type \in {"blockers", "stalled", "unassigned", "done"}
    /\ r.Alert_Level = CanonicalLevel(r.Query_Type)

\* C4: every record produced by normalization, in the record file of
\* generate_csv and in the frame of fetch_jira_dataframe alike, has a
\* query_type among blockers, stalled, unassigned, done and the alert_level
\* the fixed mapping gives for it.
C4_AlertLevelByQueryType ==
    /\ \A i \in DOMAIN csv.rows : ConsistentRow(csv.rows[i])
    /\ \A i \in DOMAIN frame : ConsistentRow(frame[i])

\* C5: when a category's fetch fails in live mode the run aborts with no
\* record file written: no file holding only the header, or only the rows
\* of the categories fetched before the failure, is left behind.
C5_NoFileAfterSourceFailure ==
    (pc = "aborted" /\ error = "HTTPError") => ~csv.exists

LevelCount(level) ==
    Cardinality({i \in DOMAIN csv.rows : csv.rows[i].Alert_Level = level})

\* C6: a mock run of generate_csv yields exactly 2 CRITICAL, 2 WARNING,
\* 1 HIGH and 3 DONE records, and the health score of that file is 25.
C6_MockDefaultCounts ==
    (pc = "scored" /\ mode = "mock") =>
        /\ LevelCount("CRITICAL") = 2
        /\ LevelCount("WARNING") = 2
        /\ LevelCount("HIGH") = 1
        /\ LevelCount("DONE") = 3
        /\ score = 25

\* C8: normalization always completes and gives every record a non-empty
\* assignee: a payload whose assignee is absent or null never makes it
\* raise, and its record carries UNASSIGNED.
C8_AssigneeAlwaysPresent ==
    /\ error \notin {"KeyError", "AttributeError"}
    /\ \A i \in DOMAIN csv.rows : csv.rows[i].Assignee # ""
    /\ \A i \in DOMAIN frame : frame[i].Assignee # ""


\* C11: when the record file is absent as send_alerts reads it, the critical
\* subset is empty: no sender is invoked, no error leaves send_alerts, and
\* it returns normally.
C11_MissingFileNoAlerts ==
    ~csv.exists =>
        /\ critical_issues = <<>>
        /\ attempts = <<>>
        /\ error = "none"
        /\ pc \in {"send_alerts", "returned"}

\* C11 witness: alerts are on, an enabled and fully configured destination
\* exists, the file is absent, and send_alerts has read it and returned with
\* the "no critical alerts" report.
C11_Witness ==
    /\ pc = "returned"
    /\ ~csv.exists
    /\ alerts_enabled
    /\ \E i \in DOMAIN destinations :
          destinations[i].enabled /\ destinations[i].missing = {}
          /\ destinations[i].type = "email"
    /\ report = "No critical alerts to send"
    /\ attempts = <<>>

(***************************************************************************)
(* Two mock runs of the program, one after the other.  rows keeps the      *)
(* records of the first run's file while the second run writes its own.    *)
(***************************************************************************)
InitRerun ==
    /\ pc = "start"
    /\ mode = "mock"
    /\ qi = 1
    /\ csv = NoFile
    /\ error = "none"
    /\ PureIdle /\ AlertIdle /\ FetchIdle

\* the program is started again: a new SprintHealthChecker, a new file
RunAgain ==
    /\ pc = "generated"
    /\ rows = <<>>
    /\ rows' = csv.rows
    /\ csv' = NoFile
    /\ qi' = 1
    /\ pc' = "start"
    /\ UNCHANGED <<score, overloaded, kpis, mode, error, alert_vars, fetch_vars>>

NextRerun == OpenCsv \/ QueryMock \/ CloseCsv \/ RunAgain

SpecRerun == InitRerun /\ [][NextRerun]_vars

\* C12: the mock source is deterministic apart from the now-relative dates:
\* two mock runs of generate_csv produce records that agree in every field
\* other than the update timestamp (which the records of the model do not
\* carry), Story_Points included.
C12_MockRunsAgree ==
    (pc = "generated" /\ rows # <<>>) => csv.rows = rows

\* C13: the threshold rules of compute_kpis fire independently: "reduce WIP"
\* is recommended iff delivery_pct < 80 (40 committed, 28 completed gives
\* 70.0, carryover 12 and the recommendation), the carryover risk is listed
\* iff carryover > 0.4 * committed, and blockers add both the blocker risk
\* and the escalation recommendation, whatever else fired.
C13_RulesIndependent ==
    pc = "kpis" =>
        /\ InList(kpis.recs, "Reduce WIP or slice stories smaller next sprint.")
              <=> DeliveryLow
        /\ kpis.delivery_pct10 < 800 <=> DeliveryLow
        /\ (kpis.committed = 40 /\ kpis.completed = 28) =>
              /\ kpis.delivery_pct10 = 700
              /\ kpis.carryover = 12
              /\ InList(kpis.recs,
                        "Reduce WIP or slice stories smaller next sprint.")
        /\ InList(kpis.risks, "SP likely rolling to next sprint.")
              <=> CarryoverHigh
        /\ InList(kpis.risks, "blockers are impacting throughput.")
              <=> BlockersPresent
        /\ InList(kpis.recs, "Escalate dependency blockers within 24h.")
              <=> BlockersPresent

\* C13 witness: 28 of 40 points done with the other 12 on a Blocked row:
\* the blocker rules and the delivery rule fired together, the carryover
\* rule (12 <= 16) did not.
C13_Witness ==
    /\ pc = "kpis"
    /\ kpis.committed = 40
    /\ kpis.completed = 28
    /\ BlockersPresent
    /\ kpis.risks = <<"blockers are impacting throughput.">>
    /\ kpis.recs = <<"Escalate dependency blockers within 24h.",
                     "Reduce WIP or slice stories smaller next sprint.">>

RECURSIVE CategoryBlocks(_)
\* the Query_Type of the rows of a file, runs of equal values taken once
CategoryBlocks(rs) ==
    IF rs = <<>> THEN <<>>
    ELSE LET before == CategoryBlocks(SubSeq(rs, 1, Len(rs) - 1))
             q == rs[Len(rs)].Query_Type
         IN  IF before # <<>> /\ before[Len(before)] = q
             THEN before
             ELSE Append(before, q)

\* C14: generate_csv fetches and writes the categories in the fixed order
\* blockers, stalled, unassigned, done: in the finished file of a mock run
\* (every category has fixtures) the rows form exactly these four blocks,
\* in this order.
C14_FixedCategoryOrder ==
    (pc = "generated" /\ mode = "mock") =>
        CategoryBlocks(csv.rows) = <<"blockers", "stalled", "unassigned", "done">>

\* What the code does keep: the three categories it has, in their order.
ThreeCategoryOrder ==
    (pc = "generated" /\ mode = "mock") =>
        CategoryBlocks(csv.rows) = <<"blockers", "stalled", "unassigned">>

IsEnabledKnown(d) == d.enabled /\ d.type \in {"slack", "teams", "email"}
SenderInvoked(a) == a.outcome # "unknown_type"

\* the destinations whose sender has been invoked, in order
InvokedTypes ==
    LET inv == SelectSeq(attempts, SenderInvoked)
    IN  [k \in 1..Len(inv) |-> inv[k].dest]

\* the enabled destinations of known type among the first n of the map
EnabledKnownTypes(n) ==
    LET ek == SelectSeq(SubSeq(destinations, 1, n), IsEnabledKnown)
    IN  [k \in 1..Len(ek) |-> ek[k].type]

\* C15: with alerts enabled and a non-empty critical subset, the senders
\* invoked are exactly those of the configured destinations with enabled
\* true and a known type, each once and in configuration order; a disabled
\* destination is never invoked; an enabled destination of unknown type is
\* passed over with a warning and neither stops the loop nor fails the run.
C15_ExactlyEnabledKnown ==
    /\ pc # "crashed"
    /\ (pc \in {"routing", "returned"} /\ critical_issues # <<>>) =>
          /\ InvokedTypes = EnabledKnownTypes(di - 1)
          /\ \A k \in 1..Len(attempts) :
                /\ \E i \in 1..(di - 1) :
                      destinations[i].type = attempts[k].dest
                      /\ destinations[i].enabled
                /\ attempts[k].outcome = "unknown_type"
                      <=> attempts[k].dest \notin {"slack", "teams", "email"}
                /\ \A j \in 1..Len(attempts) :
                      attempts[j].dest = attempts[k].dest => j = k
    /\ (pc = "returned" /\ critical_issues # <<>>) => di = Len(destinations) + 1

\* C15 witness: a disabled but fully configured slack entry, then an enabled
\* unknown type, then an enabled teams entry: slack was never invoked, the
\* unknown type was passed over, teams was delivered, send_alerts returned.
C15_Witness ==
    /\ pc = "returned"
    /\ Len(destinations) = 3
    /\ destinations[1] = [type |-> "slack", enabled |-> FALSE, missing |-> {}]
    /\ destinations[2].type = "pagerduty" /\ destinations[2].enabled
    /\ destinations[3].type = "teams" /\ destinations[3].enabled
    /\ Len(attempts) = 2
    /\ attempts[1].outcome = "unknown_type"
    /\ attempts[2].dest = "teams" /\ attempts[2].outcome = "sent"

EMAIL_REQUIRED ==
    {"smtp_server", "smtp_port", "username", "password", "from_address",
     "to_addresses"}

EmailConfig(i) == destinations[i].type = "email"

\* C16: when the email destination is enabled but a required field is
\* missing or empty, _send_email_alert opens no SMTP session and sends
\* nothing: it reports the missing fields and returns, no error is raised,
\* and the destinations after it are still processed.
C16_EmailMissingFields ==
    /\ pc # "crashed"
    /\ error = "none"
    /\ \A k \in 1..Len(attempts) :
          \A i \in DOMAIN destinations :
              (attempts[k].dest = "email" /\ EmailConfig(i)
               /\ destinations[i].missing \cap EMAIL_REQUIRED # {}) =>
                  /\ attempts[k].outcome = "not_configured"
                  /\ attempts[k].missing = destinations[i].missing \cap EMAIL_REQUIRED
    /\ (pc = "returned" /\ critical_issues # <<>>) =>
          Len(attempts) = Len(EnabledAmong(Len(destinations)))

\* C16 witness: the email entry comes first with no recipients configured:
\* its sender declined, naming to_addresses, and the slack entry after it
\* was still delivered.
C16_Witness ==
    /\ pc = "returned"
    /\ Len(attempts) = 2
    /\ attempts[1] = [dest |-> "email", outcome |-> "not_configured",
                      missing |-> {"to_addresses"}]
    /\ attempts[2].dest = "slack" /\ attempts[2].outcome = "sent"

\* C17: with no sprint identifier configured (sprint_id absent or "auto") the
\* request listing the board's active sprints is issued before the issue
\* search; when the list is empty the fetch fails with an error and the
\* search is never issued; with a sprint identifier configured no
\* sprint-list request is issued.
C17_SprintDetectionOrder ==
    /\ sprint_cfg \in {"absent", "auto"} =>
          /\ requests \in {<<>>, <<"sprint_list">>, <<"sprint_list", "search">>}
          /\ pc \in {"search", "fetched"} =>
                requests \in {<<"sprint_list">>, <<"sprint_list", "search">>}
          /\ error = "NoActiveSprint" =>
                requests = <<"sprint_list">> /\ pc = "fetch_failed"
    /\ sprint_cfg = "42" =>
          /\ requests \in {<<>>, <<"search">>}
          /\ error # "NoActiveSprint"

\* C17 witness: sprint_id is absent from the configuration, the board has
\* no active sprint, and the fetch has failed after the one list request.
C17_Witness ==
    /\ sprint_cfg = "absent"
    /\ pc = "fetch_failed"
    /\ error = "NoActiveSprint"
    /\ requests = <<"sprint_list">>

\* C17, the successful path: list request, then search, then the frame.
C17_DetectedThenSearched ==
    /\ sprint_cfg = "absent"
    /\ pc = "fetched"
    /\ requests = <<"sprint_list", "search">>

HasCriticalRow(f) ==
    f.exists /\ \E i \in 1..Len(f.rows) : f.rows[i].Alert_Level = "CRITICAL"

\* C18: when alerts are globally disabled or the destination map is empty,
\* send_alerts returns without reading the record file and without invoking
\* any destination sender, even when the file holds CRITICAL records and a
\* destination is marked enabled.
C18_GlobalGate ==
    (~alerts_enabled \/ destinations = <<>>) =>
        /\ critical_issues = <<>>
        /\ attempts = <<>>
        /\ di = 1
        /\ pc \in {"send_alerts", "returned"}
        /\ pc = "returned" =>
              report = IF ~alerts_enabled
                       THEN "Alerts are disabled globally"
                       ELSE "No alert destinations configured"

\* C18 witness: alerts disabled, a CRITICAL record in the file, an enabled
\* and fully configured slack destination, and send_alerts has returned.
C18_Witness ==
    /\ ~alerts_enabled
    /\ HasCriticalRow(csv)
    /\ \E i \in DOMAIN destinations :
          destinations[i] = [type |-> "slack", enabled |-> TRUE, missing |-> {}]
    /\ pc = "returned"
    /\ attempts = <<>>

====
